---- MODULE Spec2Model ----
(***************************************************************************)
(* Model of app.py: the /sync-record webhook that fetches one              *)
(* TR1__Opportunity_Discussed__c record from Salesforce and writes nine    *)
(* mapped columns into the od_data row whose od_id equals the given id.    *)
(*                                                                         *)
(* Each request is a process with a program counter.  A step of a request  *)
(* is one interaction with the outside (the Salesforce login, the SOQL     *)
(* query, the database connect, the UPDATE, the COMMIT) together with all  *)
(* the local control flow of app.py up to the next interaction or to the   *)
(* response.                                                               *)
(***************************************************************************)
EXTENDS Integers, Sequences, FiniteSets, TLC

(* ------------------------------ bounds --------------------------------- *)

\* number of requests the model lets arrive
MaxRequests == 2

\* number of edits made to Salesforce records while requests run
MaxEdits == 1

Requests == 1..MaxRequests

(* --------------------------- Python values ----------------------------- *)

None == [t |-> "none"]

Str(x) == [t |-> "str", s |-> x]

Num(n) == [t |-> "num", n |-> n]

\* a dict with string keys is a TLA+ function from its keys
Dict(f) == [t |-> "dict", d |-> f]

List(q) == [t |-> "list", l |-> q]

EmptyDict == Dict(<<>>)

\* the value of an expression whose evaluation raised AttributeError
Raised == [t |-> "raised"]

\* Python truth value: None, "", 0, {} and [] are false
Truthy(v) ==
    CASE v.t = "none" -> FALSE
      [] v.t = "str" -> v.s # ""
      [] v.t = "num" -> v.n # 0
      [] v.t = "dict" -> DOMAIN v.d # {}
      [] v.t = "list" -> v.l # <<>>
      [] OTHER -> TRUE

\* v.get(k, dflt): AttributeError when v is not a dict
GetOr(v, k, dflt) ==
    IF v.t # "dict" THEN Raised
    ELSE IF k \in DOMAIN v.d THEN v.d[k] ELSE dflt

\* v.get(k)
Get(v, k) == GetOr(v, k, None)

(* ------------------------- Salesforce records -------------------------- *)

\* the external ids requests name
Ids == {"a0B1"}

\* a record with both relations and the three queried transcripts set
RecFull ==
    Dict([attributes |-> Str("TR1__Opportunity_Discussed__c"),
          Id |-> Str("a0B1"),
          TR1__Job__r |-> Dict([attributes |-> Str("TR1__Job__c"), Id |-> Str("J1")]),
          TR1__Candidate__r |->
              Dict([attributes |-> Str("Contact"), Id |-> Str("C1"),
                    AccountId |-> Str("A1"),
                    Candidate_s_Resume_TXT__c |-> Str("resume"),
                    FirstName |-> Str("Ann")]),
          Screening_Transcript__c |-> Str("screening"),
          Internal_Interview_Transcript__c |-> Str("internal"),
          X1st_Interview_Transcript__c |-> Str("first")])

\* both relations null, Screening_Transcript__c "hello"
RecNullRelations ==
    Dict([attributes |-> Str("TR1__Opportunity_Discussed__c"),
          Id |-> Str("a0B1"),
          TR1__Job__r |-> None,
          TR1__Candidate__r |-> None,
          Screening_Transcript__c |-> Str("hello"),
          Internal_Interview_Transcript__c |-> None,
          X1st_Interview_Transcript__c |-> None])

\* the job relation missing from the mapping, the candidate relation empty
RecMissingRelations ==
    Dict([attributes |-> Str("TR1__Opportunity_Discussed__c"),
          Id |-> Str("a0B1"),
          TR1__Candidate__r |-> EmptyDict,
          Screening_Transcript__c |-> None,
          Internal_Interview_Transcript__c |-> Str("internal"),
          X1st_Interview_Transcript__c |-> None])

Records == {RecFull, RecNullRelations, RecMissingRelations}

\* Salesforce holds no record for the id
Absent == [t |-> "absent"]

(* ----------------------------- the mapper ------------------------------ *)

\* the mapper without its guard: sf_data.get(rel, {}).get(f)
RelField_NoGuard(sf_data, rel, f) == Get(GetOr(sf_data, rel, EmptyDict), f)

\* sf_data.get(rel, {}).get(f) if sf_data.get(rel) else None
RelField(sf_data, rel, f) ==
    IF Truthy(Get(sf_data, rel))
    THEN Get(GetOr(sf_data, rel, EmptyDict), f)
    ELSE None

\* the tuple handed to cur.execute: nine column values, then the id
values_to_update(salesforce_opp_discussed_id, sf_data) ==
    << RelField(sf_data, "TR1__Job__r", "Id"),
       RelField(sf_data, "TR1__Candidate__r", "Id"),
       RelField(sf_data, "TR1__Candidate__r", "AccountId"),
       RelField(sf_data, "TR1__Candidate__r", "Candidate_s_Resume_TXT__c"),
       RelField(sf_data, "TR1__Candidate__r", "FirstName"),
       Get(sf_data, "screening_transcript_c"),
       Get(sf_data, "internal_interview_transcript_c"),
       Get(sf_data, "x1st_interview_transcript_c"),
       Get(sf_data, "x2nd_interview_transcript_c"),
       salesforce_opp_discussed_id >>

NumColumns == 9

Columns(values) == SubSeq(values, 1, NumColumns)

(* --------------------------- request bodies ---------------------------- *)

\* a request: is_json is what request.is_json sees (the Content-Type), parses
\* says whether the body is well-formed JSON, data is the parsed JSON value
Body(is_json, parses, data) == [is_json |-> is_json, parses |-> parses, data |-> data]

Bodies ==
    { Body(FALSE, TRUE, None),                          \* not sent as JSON
      Body(TRUE, FALSE, None),                          \* malformed JSON
      Body(TRUE, TRUE, Dict([od_id |-> Str("a0B1")])),
      Body(TRUE, TRUE, Dict([od_id |-> Str("")])),
      Body(TRUE, TRUE, EmptyDict),                      \* an object without od_id
      Body(TRUE, TRUE, List(<<>>)),                     \* an array
      Body(TRUE, TRUE, None),                           \* JSON null
      Body(TRUE, TRUE, Num(5)) }                        \* a scalar

NoBody == [t |-> "nobody"]

(* ------------------------ exceptions, responses ------------------------ *)

NoExc == [type |-> "none"]

\* an exception of the given class, str(e) = msg, raised at the given place
Exc(type, msg, where) == [type |-> type, msg |-> msg, where |-> where]

NoResponse == [status |-> 0]

Response(status, body) == [status |-> status, body |-> body]

\* a handler that answers every exception with one fixed text
HandleException_Fixed(e) == Response(500, [error |-> <<"Internal error">>])

\* the three except clauses of sync_record_endpoint; an f-string is the
\* sequence of its pieces
HandleException(e) ==
    CASE e.type = "SalesforceAuthenticationFailed" ->
            Response(500, [error |-> <<"Salesforce authentication failed. Check credentials.">>])
      [] e.type = "psycopg2.Error" ->
            Response(500, [error |-> <<"Database operation failed: ", e.msg>>])
      [] OTHER ->
            Response(500, [error |-> <<"An unexpected error occurred: ", e.msg>>])

\* an exception raised outside the try block: Flask's own error page
Unhandled(e) == Response(500, [html |-> "Internal Server Error"])

\* an endpoint that reports success whatever the row count
RespondUpdated_AlwaysOk(updated_row_count, id) ==
    Response(200, [message |-> <<"Successfully synchronized data for ID ", id>>,
                   salesforce_data_retrieved |-> TRUE,
                   postgres_rows_updated |-> updated_row_count])

\* the two returns after update_postgres_record
RespondUpdated(updated_row_count, id) ==
    IF updated_row_count > 0
    THEN Response(200, [message |-> <<"Successfully synchronized data for ID ", id>>,
                        salesforce_data_retrieved |-> TRUE,
                        postgres_rows_updated |-> updated_row_count])
    ELSE Response(404, [message |-> <<"Data retrieved from Salesforce for ID ", id,
                                      ", but no matching record found in PostgreSQL to update.">>,
                        salesforce_data_retrieved |-> TRUE,
                        postgres_rows_updated |-> 0])

\* a not-found return that forgot its status code
RespondNoData_Ok(id) ==
    Response(200, [message |-> <<"No data found in Salesforce for ID ", id>>])

RespondNoData(id) ==
    Response(404, [message |-> <<"No data found in Salesforce for ID ", id>>])

(* ------------------------------ od_data -------------------------------- *)

NoRow == [t |-> "norow"]

Row(cols, updated_at) == [cols |-> cols, updated_at |-> updated_at]

NoValues == << >>

\* the row as od_data holds it before any request
InitialRow == Row(<<Str("J0"), None, None, None, None, None, None, None, None>>, 0)

\* an UPDATE that only touches rows never synchronised before
RowsMatching_Fresh(tbl, id) ==
    {i \in DOMAIN tbl : tbl[i] # NoRow /\ i = id /\ tbl[i].updated_at = 0}

\* the ids of the rows WHERE od_id = %s selects
RowsMatching(tbl, id) == {i \in DOMAIN tbl : tbl[i] # NoRow /\ i = id}

\* an UPDATE that keeps the old value of a column whose new value is null
UpdatedRow_Coalesce(row, values, ts) ==
    Row([k \in 1..NumColumns |-> IF values[k] = None THEN row.cols[k] ELSE values[k]], ts)

\* SET job_id = %s, ..., updated_at = CURRENT_TIMESTAMP: the new row version
UpdatedRow(row, values, ts) == Row(Columns(values), ts)

\* an except clause without the rollback
ExceptDbError_NoRollback(c, t) == t

\* except psycopg2.Error: if conn: conn.rollback()
ExceptDbError(c, t) == IF c = "open" THEN "rolledback" ELSE t

\* closing a connection discards a transaction still in progress
CloseTxn(t) == IF t = "active" THEN "aborted" ELSE t

\* no finally block
Finally_NoClose(c) == c

\* finally: if conn: conn.close()
Finally(c) == IF c = "open" THEN "closed" ELSE c

(* ------------------------------- state --------------------------------- *)

VARIABLES
    upstream,        \* Salesforce: id -> record or Absent
    edits,           \* edits made to Salesforce so far
    table,           \* od_data, committed: od_id -> row or NoRow
    lock,            \* od_data row locks: od_id -> request holding it, or 0
    now,             \* the database clock read by CURRENT_TIMESTAMP
    pc,              \* where each request is
    body,            \* the request's body
    od_id,           \* salesforce_opp_discussed_id
    sf,              \* the Salesforce session: "none", "connected", "failed"
    sf_record_data,  \* what fetch_salesforce_data returned
    values,          \* values_to_update
    conn,            \* the database connection: "none", "open", "closed"
    txn,             \* its transaction: "none", "active", "committed", "rolledback", "aborted"
    pending,         \* the row version the transaction wrote and has not committed
    rowcount,        \* cur.rowcount, -1 before any execute
    raised,          \* the exception the request raised, if any
    response         \* the response sent

vars == <<upstream, edits, table, lock, now, pc, body, od_id, sf, sf_record_data,
          values, conn, txn, pending, rowcount, raised, response>>

crm == <<upstream, edits>>
db == <<table, lock, now>>
dbLocals == <<conn, txn, pending, rowcount>>

Unset == [t |-> "unset"]

Init ==
    /\ upstream \in [Ids -> Records \cup {Absent}]
    /\ edits = 0
    /\ table \in [Ids -> {InitialRow, NoRow}]
    /\ lock = [i \in Ids |-> 0]
    /\ now = 0
    /\ pc = [r \in Requests |-> "idle"]
    /\ body = [r \in Requests |-> NoBody]
    /\ od_id = [r \in Requests |-> None]
    /\ sf = [r \in Requests |-> "none"]
    /\ sf_record_data = [r \in Requests |-> Unset]
    /\ values = [r \in Requests |-> NoValues]
    /\ conn = [r \in Requests |-> "none"]
    /\ txn = [r \in Requests |-> "none"]
    /\ pending = [r \in Requests |-> NoRow]
    /\ rowcount = [r \in Requests |-> -1]
    /\ raised = [r \in Requests |-> NoExc]
    /\ response = [r \in Requests |-> NoResponse]

\* the request ends: the exception e reaches the handler's except clauses
Fail(r, e) ==
    /\ raised' = [raised EXCEPT ![r] = e]
    /\ response' = [response EXCEPT ![r] = HandleException(e)]
    /\ pc' = [pc EXCEPT ![r] = "done"]

\* the request ends with a response and no exception
Reply(r, resp) ==
    /\ response' = [response EXCEPT ![r] = resp]
    /\ pc' = [pc EXCEPT ![r] = "done"]
    /\ UNCHANGED raised

(* ------------------------------ actions -------------------------------- *)

\* sync_record_endpoint up to the try block: the payload checks
Validate(r) ==
    /\ pc[r] = "idle"
    /\ r > 1 => pc[r - 1] # "idle"
    /\ \E b \in Bodies :
        /\ body' = [body EXCEPT ![r] = b]
        /\ IF ~b.is_json
           THEN /\ Reply(r, Response(400, [error |-> <<"Request must be JSON">>]))
                /\ UNCHANGED od_id
           ELSE IF ~b.parses
           THEN \* request.get_json() raises BadRequest
                /\ Reply(r, Response(400, [html |-> "Bad Request"]))
                /\ UNCHANGED od_id
           ELSE LET id == Get(b.data, "od_id") IN
                IF id = Raised
                THEN \* data.get on a value that is no dict, outside the try
                     /\ raised' = [raised EXCEPT ![r] =
                                      Exc("AttributeError", "no attribute 'get'", "validate")]
                     /\ response' = [response EXCEPT ![r] = Unhandled(raised'[r])]
                     /\ pc' = [pc EXCEPT ![r] = "done"]
                     /\ UNCHANGED od_id
                ELSE IF ~Truthy(id)
                THEN /\ Reply(r, Response(400, [error |-> <<"Missing 'od_id' in request body">>]))
                     /\ UNCHANGED od_id
                ELSE /\ od_id' = [od_id EXCEPT ![r] = id]
                     /\ pc' = [pc EXCEPT ![r] = "login"]
                     /\ UNCHANGED <<raised, response>>
    /\ UNCHANGED <<crm, db, dbLocals, sf, sf_record_data, values>>

LoginOutcomes == {"ok", "auth_failed", "error"}

\* fetch_salesforce_data: the Salesforce(...) login
Login(r) ==
    /\ pc[r] = "login"
    /\ \E o \in LoginOutcomes :
        IF o = "ok"
        THEN /\ sf' = [sf EXCEPT ![r] = "connected"]
             /\ pc' = [pc EXCEPT ![r] = "query"]
             /\ UNCHANGED <<raised, response>>
        ELSE /\ sf' = [sf EXCEPT ![r] = "failed"]
             /\ Fail(r, IF o = "auth_failed"
                        THEN Exc("SalesforceAuthenticationFailed", "INVALID_LOGIN", "fetch")
                        ELSE Exc("Exception", "connection refused", "fetch"))
    /\ UNCHANGED <<crm, db, dbLocals, body, od_id, sf_record_data, values>>

\* what sf.query can do, given what Salesforce holds for the id
QueryOutcomes(rec) ==
    IF rec = Absent THEN {"totalSize0", "ResourceNotFound", "error"}
    ELSE {"found", "error"}

\* fetch_salesforce_data: sf.query; then, in the endpoint, the not-found
\* return or the mapping of update_postgres_record
Query(r) ==
    /\ pc[r] = "query"
    /\ \E o \in QueryOutcomes(upstream[od_id[r].s]) :
        CASE o = "error" ->
                /\ Fail(r, Exc("Exception", "MALFORMED_QUERY", "fetch"))
                /\ UNCHANGED <<sf_record_data, values>>
          [] o \in {"totalSize0", "ResourceNotFound"} ->
                /\ sf_record_data' = [sf_record_data EXCEPT ![r] = None]
                /\ Reply(r, RespondNoData(od_id[r].s))
                /\ UNCHANGED values
          [] o = "found" ->
                LET rec == upstream[od_id[r].s]
                    v == values_to_update(od_id[r], rec)
                IN  /\ sf_record_data' = [sf_record_data EXCEPT ![r] = rec]
                    /\ IF ~Truthy(rec)
                       THEN /\ Reply(r, RespondNoData(od_id[r].s))
                            /\ UNCHANGED values
                       ELSE IF \E i \in DOMAIN v : v[i] = Raised
                       THEN /\ Fail(r, Exc("Exception", "no attribute 'get'", "map"))
                            /\ UNCHANGED values
                       ELSE /\ values' = [values EXCEPT ![r] = v]
                            /\ pc' = [pc EXCEPT ![r] = "connect"]
                            /\ UNCHANGED <<raised, response>>
    /\ UNCHANGED <<crm, db, dbLocals, body, od_id, sf>>

ConnectOutcomes == {"ok", "db_error"}

\* update_postgres_record: get_db_connection
Connect(r) ==
    /\ pc[r] = "connect"
    /\ \E o \in ConnectOutcomes :
        IF o = "ok"
        THEN /\ conn' = [conn EXCEPT ![r] = "open"]
             /\ pc' = [pc EXCEPT ![r] = "execute"]
             /\ UNCHANGED <<txn, raised, response>>
        ELSE \* conn is still None: no rollback, no close
             /\ txn' = [txn EXCEPT ![r] = ExceptDbError(conn[r], txn[r])]
             /\ conn' = [conn EXCEPT ![r] = Finally(conn[r])]
             /\ Fail(r, Exc("psycopg2.Error", "could not connect to server", "connect"))
    /\ UNCHANGED <<crm, db, pending, rowcount, body, od_id, sf, sf_record_data, values>>

ExecuteOutcomes == {"ok", "db_error", "error"}

\* the locks the request's transaction holds are released
Release(r) == [i \in Ids |-> IF lock[i] = r THEN 0 ELSE lock[i]]

\* update_postgres_record: cur.execute(update_query, values_to_update)
Execute(r) ==
    /\ pc[r] = "execute"
    /\ \E o \in ExecuteOutcomes :
        LET id == values[r][NumColumns + 1].s
            hit == RowsMatching(table, id)
        IN
        CASE o = "ok" ->
                \* the UPDATE waits for the row locks of the rows it writes
                /\ \A i \in hit : lock[i] = 0
                /\ lock' = [i \in Ids |-> IF i \in hit THEN r ELSE lock[i]]
                /\ now' = now + 1
                /\ txn' = [txn EXCEPT ![r] = "active"]
                /\ pending' = [pending EXCEPT ![r] =
                                 IF hit = {} THEN NoRow
                                 ELSE UpdatedRow(table[id], values[r], now + 1)]
                /\ rowcount' = [rowcount EXCEPT ![r] = Cardinality(hit)]
                /\ pc' = [pc EXCEPT ![r] = "commit"]
                /\ UNCHANGED <<conn, raised, response>>
          [] o = "db_error" ->
                /\ txn' = [txn EXCEPT ![r] = CloseTxn(ExceptDbError(conn[r], "active"))]
                /\ conn' = [conn EXCEPT ![r] = Finally(conn[r])]
                /\ Fail(r, Exc("psycopg2.Error", "relation od_data does not exist", "execute"))
                /\ UNCHANGED <<lock, now, pending, rowcount>>
          [] o = "error" ->
                \* not a psycopg2.Error: the except clause is skipped
                /\ txn' = [txn EXCEPT ![r] = CloseTxn("active")]
                /\ conn' = [conn EXCEPT ![r] = Finally(conn[r])]
                /\ Fail(r, Exc("Exception", "not all arguments converted", "execute"))
                /\ UNCHANGED <<lock, now, pending, rowcount>>
    /\ UNCHANGED <<crm, table, body, od_id, sf, sf_record_data, values>>

CommitOutcomes == {"ok", "db_error"}

\* od_data after the transaction's row version is committed
Committed(tbl, id, row) == [tbl EXCEPT ![id] = IF row = NoRow THEN tbl[id] ELSE row]

\* update_postgres_record: conn.commit(), the finally block, and the
\* endpoint's response
Commit(r) ==
    /\ pc[r] = "commit"
    /\ \E o \in CommitOutcomes :
        IF o = "ok"
        THEN /\ table' = Committed(table, values[r][NumColumns + 1].s, pending[r])
             /\ txn' = [txn EXCEPT ![r] = CloseTxn("committed")]
             /\ conn' = [conn EXCEPT ![r] = Finally(conn[r])]
             /\ Reply(r, RespondUpdated(rowcount[r], od_id[r].s))
        ELSE /\ txn' = [txn EXCEPT ![r] = CloseTxn(ExceptDbError(conn[r], txn[r]))]
             /\ conn' = [conn EXCEPT ![r] = Finally(conn[r])]
             /\ Fail(r, Exc("psycopg2.Error", "server closed the connection", "commit"))
             /\ UNCHANGED table
    /\ lock' = Release(r)
    /\ pending' = [pending EXCEPT ![r] = NoRow]
    /\ UNCHANGED <<crm, now, rowcount, body, od_id, sf, sf_record_data, values>>

\* a user of the CRM changes, creates or deletes a record
CrmEdit ==
    /\ edits < MaxEdits
    /\ \E i \in Ids, rec \in Records \cup {Absent} :
        /\ rec # upstream[i]
        /\ upstream' = [upstream EXCEPT ![i] = rec]
    /\ edits' = edits + 1
    /\ UNCHANGED <<db, dbLocals, pc, body, od_id, sf, sf_record_data, values, raised, response>>

Next ==
    \/ \E r \in Requests : Validate(r)
    \/ \E r \in Requests : Login(r)
    \/ \E r \in Requests : Query(r)
    \/ \E r \in Requests : Connect(r)
    \/ \E r \in Requests : Execute(r)
    \/ \E r \in Requests : Commit(r)
    \/ CrmEdit

Spec == Init /\ [][Next]_vars

(* ------------------------------ claims --------------------------------- *)

Done(r) == response[r] # NoResponse

\* C1: a request with a non-empty od_id for which Salesforce yields no
\* record (totalSize 0 or resource-not-found) is answered 404, and it opened
\* no database connection, began no transaction and executed no UPDATE.
C1_AbsentUpstreamNeverTouchesDb ==
    \A r \in Requests :
        (Truthy(od_id[r]) /\ sf_record_data[r] = None) =>
            /\ response[r].status = 404
            /\ conn[r] = "none"
            /\ txn[r] = "none"
            /\ rowcount[r] = -1
            /\ pending[r] = NoRow
            /\ \A i \in Ids : lock[i] # r

C1_Witness ==
    \E r \in Requests :
        /\ Truthy(od_id[r])
        /\ sf_record_data[r] = None
        /\ sf[r] = "connected"
        /\ Done(r)

\* the value of a field of a related object, None when the relation is null
UpstreamRelField(rec, rel, f) ==
    IF rel \in DOMAIN rec.d /\ rec.d[rel].t = "dict" /\ f \in DOMAIN rec.d[rel].d
    THEN rec.d[rel].d[f]
    ELSE None

UpstreamField(rec, f) == IF f \in DOMAIN rec.d THEN rec.d[f] ELSE None

\* the nine values of the upstream record, by the names the SOQL query selects
UpstreamColumns(rec) ==
    << UpstreamRelField(rec, "TR1__Job__r", "Id"),
       UpstreamRelField(rec, "TR1__Candidate__r", "Id"),
       UpstreamRelField(rec, "TR1__Candidate__r", "AccountId"),
       UpstreamRelField(rec, "TR1__Candidate__r", "Candidate_s_Resume_TXT__c"),
       UpstreamRelField(rec, "TR1__Candidate__r", "FirstName"),
       UpstreamField(rec, "Screening_Transcript__c"),
       UpstreamField(rec, "Internal_Interview_Transcript__c"),
       UpstreamField(rec, "X1st_Interview_Transcript__c"),
       UpstreamField(rec, "X2nd_Interview_transcript__c") >>

\* C2: a sync answered 200 has written, as the nine mapped columns, the
\* values of the corresponding fields of the upstream record it fetched; an
\* upstream Screening_Transcript__c of "hello" is the sixth value.
C2_ColumnsEqualUpstream ==
    \A r \in Requests :
        response[r].status = 200 =>
            Columns(values[r]) = UpstreamColumns(sf_record_data[r])

\* the body is not valid JSON, or its JSON value has no od_id field
LacksOdId(b) ==
    b.is_json /\ (~b.parses \/ b.data.t # "dict" \/ "od_id" \notin DOMAIN b.data.d)

\* C3: a request whose body is not valid JSON or lacks od_id, whatever the
\* shape of the JSON value, is answered 400 and reaches neither Salesforce
\* nor the database.
C3_BadBodyIs400 ==
    \A r \in Requests :
        (Done(r) /\ LacksOdId(body[r])) =>
            /\ response[r].status = 400
            /\ sf[r] = "none"
            /\ conn[r] = "none"

\* C4: when the UPDATE of an id that is present upstream commits and od_data
\* holds no row for the id, the answer is 404 with postgres_rows_updated 0
\* and salesforce_data_retrieved true, and od_data is left as it was.
C4_AbsentLocally ==
    [][\A r \in Requests :
          ( /\ pc[r] = "commit"
            /\ pc'[r] = "done"
            /\ raised'[r] = NoExc
            /\ table[od_id[r].s] = NoRow )
          => /\ response'[r].status = 404
             /\ response'[r].body.postgres_rows_updated = 0
             /\ response'[r].body.salesforce_data_retrieved = TRUE
             /\ table' = table]_vars

C4_Witness ==
    \E r \in Requests :
        /\ response[r].status = 404
        /\ txn[r] = "committed"
        /\ rowcount[r] = 0
        /\ sf_record_data[r] \in Records
        /\ table[od_id[r].s] = NoRow

\* the request failed with an exception raised while fetching or updating
FailedInTry(r) == raised[r] # NoExc /\ raised[r].where # "validate"

\* the response's error field holds the text
Carries(resp, text) ==
    /\ "error" \in DOMAIN resp.body
    /\ \E k \in DOMAIN resp.body.error : resp.body.error[k] = text

\* C5 as stated: every exception raised while fetching or updating becomes
\* a 500 response whose error field carries the exception's own message.
C5_AllErrorsCarryMessage ==
    \A r \in Requests :
        FailedInTry(r) =>
            /\ response[r].status = 500
            /\ Carries(response[r], raised[r].msg)

\* C5, amended: every exception raised while fetching or updating becomes a
\* 500 response; a database error or any other exception has its message in
\* the error field, while a Salesforce authentication failure is answered
\* with a fixed text that does not hold the exception's message.
C5_ErrorsAre500 ==
    \A r \in Requests :
        FailedInTry(r) =>
            /\ response[r].status = 500
            /\ IF raised[r].type = "SalesforceAuthenticationFailed"
               THEN /\ response[r].body.error =
                          <<"Salesforce authentication failed. Check credentials.">>
                    /\ ~Carries(response[r], raised[r].msg)
               ELSE Carries(response[r], raised[r].msg)

C5_Witness ==
    /\ \E r \in Requests : FailedInTry(r) /\ raised[r].type = "psycopg2.Error"
    /\ \E r \in Requests : FailedInTry(r) /\ raised[r].type = "SalesforceAuthenticationFailed"

\* C6: when a sync of an id commits without error while the row still holds
\* what an earlier sync of the same id and the same upstream record wrote
\* (answered 200), both answers are 200 with postgres_rows_updated 1 and the
\* nine columns of the row are what they were after the first.
C6_Idempotent ==
    [][\A r1, r2 \in Requests :
          ( /\ r1 # r2
            /\ response[r1].status = 200
            /\ od_id[r1] = od_id[r2]
            /\ sf_record_data[r1] = sf_record_data[r2]
            /\ pc[r2] = "commit"
            /\ pc'[r2] = "done"
            /\ raised'[r2] = NoExc
            /\ table[od_id[r1].s] # NoRow
            /\ table[od_id[r1].s].cols = Columns(values[r1]) )
          => /\ response[r1].body.postgres_rows_updated = 1
             /\ response'[r2].status = 200
             /\ response'[r2].body.postgres_rows_updated = 1
             /\ table'[od_id[r1].s].cols = table[od_id[r1].s].cols]_vars

C6_Witness ==
    \E r1, r2 \in Requests :
        /\ r1 # r2
        /\ response[r1].status = 200
        /\ response[r2].status = 200
        /\ sf_record_data[r1] = sf_record_data[r2]
        /\ table[od_id[r1].s].cols = Columns(values[r1])
        /\ table[od_id[r1].s].updated_at > 1

Mapped(r) == sf_record_data[r].t = "dict"

\* C7: for a fetched record whose job or candidate relation is null, missing
\* or empty the mapper raises nothing and yields null for every output of
\* that relation, and the UPDATE is executed with those values.
C7_AbsentRelationIsNull ==
    \A r \in Requests :
        Mapped(r) =>
            /\ raised[r] = NoExc \/ raised[r].where # "map"
            /\ values[r] # NoValues
            /\ ~Truthy(Get(sf_record_data[r], "TR1__Job__r")) => values[r][1] = None
            /\ ~Truthy(Get(sf_record_data[r], "TR1__Candidate__r")) =>
                   \A k \in 2..5 : values[r][k] = None
            /\ (Done(r) /\ raised[r] = NoExc) => rowcount[r] # -1
            /\ pending[r] # NoRow => pending[r].cols = Columns(values[r])

C7_Witness ==
    \E r \in Requests :
        /\ Mapped(r)
        /\ ~Truthy(Get(sf_record_data[r], "TR1__Job__r"))
        /\ ~Truthy(Get(sf_record_data[r], "TR1__Candidate__r"))
        /\ response[r].status = 200
        /\ table[od_id[r].s].cols = [k \in 1..NumColumns |-> None]

\* C8: a step in which a database error strikes a request whose connection is
\* open rolls the transaction back, closes the connection, leaves od_data as
\* committed and answers 500; od_data changes only in a step in which a
\* transaction commits without error.
C8_DbErrorRollsBack ==
    [][/\ \A r \in Requests :
            ( /\ conn[r] = "open"
              /\ raised[r] = NoExc
              /\ raised'[r] # NoExc
              /\ raised'[r].type = "psycopg2.Error" )
            => /\ txn'[r] = "rolledback"
               /\ table' = table
               /\ \A i \in Ids : lock'[i] # r
               /\ response'[r].status = 500
       /\ table' # table =>
            \E r \in Requests :
                /\ txn[r] = "active"
                /\ txn'[r] = "committed"
                /\ raised'[r] = NoExc]_vars

C8_Witness ==
    \E r \in Requests :
        /\ raised[r].type = "psycopg2.Error"
        /\ raised[r].where = "commit"
        /\ rowcount[r] = 1
        /\ txn[r] = "rolledback"
        /\ table[od_id[r].s] = InitialRow

\* C9: a request that has been answered holds no open database connection
\* and no row lock, whichever way update_postgres_record was left.
C9_ConnectionClosed ==
    \A r \in Requests :
        Done(r) =>
            /\ conn[r] # "open"
            /\ txn[r] # "active"
            /\ \A i \in Ids : lock[i] # r

C9_Witness ==
    /\ \E r \in Requests :
          raised[r] # NoExc /\ raised[r].type = "Exception"
              /\ raised[r].where = "execute" /\ conn[r] = "closed"
    /\ \E r \in Requests : response[r].status = 200 /\ conn[r] = "closed"

\* C10: od_data changes only by the commit of one request, and the row then
\* holds all nine values of that request's tuple: the row is always the whole
\* tuple of the request that committed last.
C10_LastWriteWins ==
    [][\A i \in Ids :
          table'[i] # table[i] =>
              \E r \in Requests :
                  /\ pc[r] = "commit"
                  /\ pc'[r] = "done"
                  /\ values[r][NumColumns + 1].s = i
                  /\ table'[i].cols = Columns(values[r])]_vars

\* a request that fetched the record before the edit committed after the
\* request that fetched the edited record: the row holds the older values
C10_Witness ==
    \E r1, r2 \in Requests : \E i \in Ids :
        /\ r1 # r2
        /\ edits = 1
        /\ response[r1].status = 200
        /\ response[r2].status = 200
        /\ sf_record_data[r1] = upstream[i]
        /\ sf_record_data[r2] # upstream[i]
        /\ Columns(values[r1]) # Columns(values[r2])
        /\ table[i].cols = Columns(values[r2])

====
